---- MODULE Spec2Model ----
(***************************************************************************)
(* GPU cloud platform front end: the dashboard's instance list and its     *)
(* pause / resume / delete handler, the landing page's animated savings    *)
(* counter, and the cost calculator.                                       *)
(*                                                                         *)
(* Units.  Money is kept in cents (3.99 $/h is 399).  The calculator's     *)
(* double arithmetic on the price table is exact to well below half a cent *)
(* for every hours value the model draws, so toFixed(2) of the double is   *)
(* the exact cent value and toFixed(0) of the percentage is the exact      *)
(* quotient rounded half up; the model computes with the exact values.     *)
(* Math.random() returns k / RandSteps for k in 0 .. RandSteps-1, and a    *)
(* gpu_utilization is stored as its numerator over RandSteps (78 % is      *)
(* 78 * RandSteps).                                                        *)
(***************************************************************************)
EXTENDS Integers, Sequences, FiniteSets

VARIABLES
    instances,  \* Dashboard: useState<Instance[]>
    last,       \* Dashboard: the arguments and the prev list of the last handleInstanceAction call
    savings,    \* LandingPage: useState(0), the animated counter
    phase,      \* LandingPage: where the component is in its life cycle
    timers,     \* LandingPage: the interval ids that are active in the browser
    interval,   \* LandingPage: the const interval captured by the effect's cleanup
    lastEvent,  \* LandingPage: the last thing that happened to the page
    ticks,      \* LandingPage: how many times an interval callback has run, up to MaxTicks
    hours,      \* CostCalculator: useState(100)
    gpuType,    \* CostCalculator: useState('A10G')
    slider,     \* CostCalculator: the position the range input was last moved to
    view        \* CostCalculator: the values computed by the last render

vars == <<instances, last, savings, phase, timers, interval, lastEvent, ticks,
         hours, gpuType, slider, view>>

dashVars == <<instances, last>>
landingVars == <<savings, phase, timers, interval, lastEvent, ticks>>
calcVars == <<hours, gpuType, slider, view>>

----------------------------------------------------------------------------
(* Bounds *)

\* resolution of Math.random(): it returns k / RandSteps, k in 0 .. RandSteps-1
RandSteps == 4

\* largest hours value the pure cost computation is tried on
HoursInputMax == 760

\* the interval callbacks are counted up to this number
MaxTicks == 75

----------------------------------------------------------------------------
(* Dashboard *)

Status == {"running", "paused", "stopped"}

Actions == {"pause", "resume", "delete"}

\* one unit of gpu_utilization is 1 / UtilScale percent
UtilScale == RandSteps

Seed1 ==
    [id |-> "gpu-1", name |-> "Llama-3-Training", gpu_type |-> "A100",
     status |-> "running", cost_per_hour |-> 399, total_cost |-> 12768,
     savings |-> 8938, gpu_utilization |-> 78 * UtilScale,
     uptime |-> "32h 15m", public_ip |-> "20.124.56.78"]

Seed2 ==
    [id |-> "gpu-2", name |-> "Stable-Diffusion-XL", gpu_type |-> "A10G",
     status |-> "paused", cost_per_hour |-> 199, total_cost |-> 4577,
     savings |-> 3204, gpu_utilization |-> 0,
     uptime |-> "23h 0m", public_ip |-> "20.124.56.79"]

Seed3 ==
    [id |-> "gpu-3", name |-> "Jupyter-Notebook", gpu_type |-> "T4",
     status |-> "running", cost_per_hour |-> 99, total_cost |-> 1584,
     savings |-> 1109, gpu_utilization |-> 12 * UtilScale,
     uptime |-> "16h 0m", public_ip |-> "20.124.56.80"]

\* a seed in which the third record repeats the second one's id
SeedInstances_DupId == <<Seed1, Seed2, [Seed3 EXCEPT !.id = "gpu-2"]>>

\* a seed whose first record carries the A10G price with the A100 type
SeedInstances_WrongPrice == <<[Seed1 EXCEPT !.cost_per_hour = 199], Seed2, Seed3>>

\* the initial value of useState<Instance[]>
SeedInstances == <<Seed1, Seed2, Seed3>>

\* the ids a caller may pass: those of the seed and one that is in no list
Ids == {"gpu-1", "gpu-2", "gpu-3", "gpu-4"}

\* Math.random() taken to range over (0, 1] instead of [0, 1)
RandomUtilization_Closed(k) == (k + 1) * 100

\* Math.random() * 100, as a numerator over UtilScale
RandomUtilization(k) == k * 100

\* a map whose pause branch sets the status and forgets the utilization
MapUpdater_KeepUtil(prev, id, action, k) ==
    [n \in 1..Len(prev) |->
        IF prev[n].id = id
        THEN IF action = "pause"
             THEN [prev[n] EXCEPT !.status = "paused"]
             ELSE IF action = "resume"
                  THEN [prev[n] EXCEPT !.status = "running",
                                       !.gpu_utilization = RandomUtilization(k)]
                  ELSE prev[n]
        ELSE prev[n]]

\* a map whose resume branch also restarts the accumulated cost
MapUpdater_ResetCost(prev, id, action, k) ==
    [n \in 1..Len(prev) |->
        IF prev[n].id = id
        THEN IF action = "pause"
             THEN [prev[n] EXCEPT !.status = "paused", !.gpu_utilization = 0]
             ELSE IF action = "resume"
                  THEN [prev[n] EXCEPT !.status = "running",
                                       !.gpu_utilization = RandomUtilization(k),
                                       !.total_cost = 0]
                  ELSE prev[n]
        ELSE prev[n]]

\* a map whose pause branch writes the third status of the type
MapUpdater_Stopped(prev, id, action, k) ==
    [n \in 1..Len(prev) |->
        IF prev[n].id = id
        THEN IF action = "pause"
             THEN [prev[n] EXCEPT !.status = "stopped", !.gpu_utilization = 0]
             ELSE IF action = "resume"
                  THEN [prev[n] EXCEPT !.status = "running",
                                       !.gpu_utilization = RandomUtilization(k)]
                  ELSE prev[n]
        ELSE prev[n]]

\* prev.map(instance => ...) of handleInstanceAction; k is the Math.random() draw
MapUpdater(prev, id, action, k) ==
    [n \in 1..Len(prev) |->
        IF prev[n].id = id
        THEN IF action = "pause"
             THEN [prev[n] EXCEPT !.status = "paused", !.gpu_utilization = 0]
             ELSE IF action = "resume"
                  THEN [prev[n] EXCEPT !.status = "running",
                                       !.gpu_utilization = RandomUtilization(k)]
                  ELSE prev[n]
        ELSE prev[n]]

\* the filter predicate with === for !==
KeepInstance_Inverted(i, id) == i.id = id

\* i => i.id !== id
KeepInstance(i, id) == i.id # id

\* removal by prev.splice(prev.findIndex(i => i.id === id), 1): an id that is
\* not found gives index -1, and splice(-1, 1) removes the last record
FilterUpdater_Splice(prev, id) ==
    LET found == {n \in 1..Len(prev) : prev[n].id = id}
        idx == IF found = {} THEN Len(prev)
               ELSE CHOOSE n \in found : \A m \in found : n <= m
    IN [n \in 1..(Len(prev) - 1) |-> IF n < idx THEN prev[n] ELSE prev[n + 1]]

\* prev.filter(i => i.id !== id)
FilterUpdater(prev, id) == SelectSeq(prev, LAMBDA i : KeepInstance(i, id))

\* a handler whose resume of an id that is not in the list puts the seed
\* record of that id back
ApplyInstanceAction_Undo(prev, id, action, k) ==
    IF action = "delete"
    THEN FilterUpdater(MapUpdater(prev, id, action, k), id)
    ELSE IF /\ action = "resume"
            /\ \A n \in 1..Len(prev) : prev[n].id # id
            /\ \E m \in 1..Len(SeedInstances) : SeedInstances[m].id = id
         THEN Append(prev, SeedInstances[CHOOSE m \in 1..Len(SeedInstances) :
                                            SeedInstances[m].id = id])
         ELSE MapUpdater(prev, id, action, k)

\* the list after both queued updaters of one handleInstanceAction call
ApplyInstanceAction(prev, id, action, k) ==
    IF action = "delete"
    THEN FilterUpdater(MapUpdater(prev, id, action, k), id)
    ELSE MapUpdater(prev, id, action, k)

NoCall == [id |-> "", action |-> "none", prev |-> << >>]

handleInstanceAction(id, action) ==
    /\ \E k \in 0..(RandSteps - 1) :
          instances' = ApplyInstanceAction(instances, id, action, k)
    /\ last' = [id |-> id, action |-> action, prev |-> instances]
    /\ UNCHANGED <<landingVars, calcVars>>

\* the ternary of the action cell turned round
ButtonsOf_Inverted(instance) ==
    IF instance.status = "running" THEN {"resume", "delete"} ELSE {"pause", "delete"}

\* the buttons of an instance's row: Pause when it is running, Resume
\* otherwise, and Delete in either case
ButtonsOf(instance) ==
    IF instance.status = "running" THEN {"pause", "delete"} ELSE {"resume", "delete"}

\* onClick of a button of the n-th row
ClickButton(n, b) ==
    /\ n \in 1..Len(instances)
    /\ b \in ButtonsOf(instances[n])
    /\ handleInstanceAction(instances[n].id, b)

\* Active GPUs: instances.length
ActiveGpus == Len(instances)

\* instances.filter(i => i.status === 'running').length
RunningCount == Len(SelectSeq(instances, LAMBDA i : i.status = "running"))

\* AutoPaused: instances.filter(i => i.status === 'paused').length
AutoPausedCount == Len(SelectSeq(instances, LAMBDA i : i.status = "paused"))

----------------------------------------------------------------------------
(* Landing page *)

\* the state before the component is first rendered: useState(0), no effect run yet
InitLanding ==
    /\ savings = 0
    /\ phase = "new"
    /\ timers = {}
    /\ interval = 0
    /\ lastEvent = "none"
    /\ ticks = 0

\* the updater with <= for <
SavingsUpdater_OffByOne(prev) == IF prev <= 70 THEN prev + 1 ELSE 70

\* prev => { if (prev < 70) return prev + 1; return 70 }
SavingsUpdater(prev) == IF prev < 70 THEN prev + 1 ELSE 70

\* the body of the effect: const interval = setInterval(..., 20); ids are handed out in order
RunEffect ==
    /\ interval' = interval + 1
    /\ timers' = timers \cup {interval + 1}

\* a cleanup that does not clear the interval
RunCleanup_NoClear == UNCHANGED <<timers, interval>>

\* the effect's cleanup: clearInterval(interval)
RunCleanup ==
    /\ timers' = timers \ {interval}
    /\ UNCHANGED interval

\* first render and commit.  reactStrictMode is on, so a development build
\* goes on to run the cleanup and the effect once more before anything else
\* can happen; a production build does not.
Mount ==
    /\ phase = "new"
    /\ savings' = 0
    /\ RunEffect
    /\ \E strict \in BOOLEAN :
          phase' = IF strict THEN "strictMounted" ELSE "mounted"
    /\ lastEvent' = "mount"
    /\ UNCHANGED <<ticks, dashVars, calcVars>>

\* strict mode's simulated unmount: the cleanup runs, the state is kept
StrictCleanup ==
    /\ phase = "strictMounted"
    /\ RunCleanup
    /\ phase' = "strictUnmounted"
    /\ lastEvent' = "cleanup"
    /\ UNCHANGED <<savings, ticks, dashVars, calcVars>>

\* strict mode's simulated remount: the effect runs again
StrictEffect ==
    /\ phase = "strictUnmounted"
    /\ RunEffect
    /\ phase' = "mounted"
    /\ lastEvent' = "mount"
    /\ UNCHANGED <<savings, ticks, dashVars, calcVars>>

\* the callback of an active interval fires: setSavings(prev => ...).  No
\* callback runs in the middle of the synchronous strict-mode commit.
Tick(t) ==
    /\ t \in timers
    /\ phase \notin {"strictMounted", "strictUnmounted"}
    /\ savings' = SavingsUpdater(savings)
    /\ lastEvent' = "tick"
    /\ ticks' = IF ticks < MaxTicks THEN ticks + 1 ELSE ticks
    /\ UNCHANGED <<phase, timers, interval, dashVars, calcVars>>

TickAny == \E t \in timers : Tick(t)

\* the page is left: the cleanup of the effect runs
Unmount ==
    /\ phase = "mounted"
    /\ RunCleanup
    /\ phase' = "gone"
    /\ lastEvent' = "unmount"
    /\ UNCHANGED <<savings, ticks, dashVars, calcVars>>

----------------------------------------------------------------------------
(* Cost calculator *)

GpuTypes == {"T4", "A10G", "A100"}

\* per-hour prices in cents
gpuPrices ==
    [g \in GpuTypes |->
        CASE g = "T4"   -> [aws |-> 306,  ours |-> 99]
          [] g = "A10G" -> [aws |-> 512,  ours |-> 199]
          [] g = "A100" -> [aws |-> 1224, ours |-> 399]]

\* truncation (Math.floor) in place of toFixed(0)
ToFixed0_Truncate(num, den) == num \div den

\* (num / den).toFixed(0) for num >= 0, den > 0: nearest integer, ties up
ToFixed0(num, den) == (2 * num + den) \div (2 * den)

\* the provider cost cut down to whole dollars
awsCostOf_WholeDollars(h, g) == ((h * gpuPrices[g].aws) \div 100) * 100

\* const awsCost = hours * gpuPrices[gpuType].aws
awsCostOf(h, g) == h * gpuPrices[g].aws

\* the platform cost read from the aws column
ourCostOf_AwsColumn(h, g) == h * gpuPrices[g].aws

\* const ourCost = hours * gpuPrices[gpuType].ours
ourCostOf(h, g) == h * gpuPrices[g].ours

\* const savings = awsCost - ourCost
savingsOf(h, g) == awsCostOf(h, g) - ourCostOf(h, g)

\* ((savings / awsCost) * 100).toFixed(0)
savingsPercentOf(h, g) == ToFixed0(savingsOf(h, g) * 100, awsCostOf(h, g))

\* the body of CostCalculator: what one render computes from the state
Render(h, g) ==
    [awsCost |-> awsCostOf(h, g), ourCost |-> ourCostOf(h, g),
     savings |-> savingsOf(h, g), savingsPercent |-> savingsPercentOf(h, g)]

\* what the render ends in when gpuPrices[gpuType] is undefined: reading .aws
\* of undefined throws
RenderError == [error |-> "TypeError"]

\* one render of CostCalculator, with the lookup that may fail
RenderView(h, g) == IF g \in DOMAIN gpuPrices THEN Render(h, g) ELSE RenderError

\* the state after the first render: useState(100), useState('A10G')
InitCalc ==
    /\ hours = 100
    /\ gpuType = "A10G"
    /\ slider = hours
    /\ view = RenderView(hours, gpuType)

\* min and max of the range input
SliderMin == 10

SliderMax == 730

\* the positions a user may try to move the range input to, in steps of 1
SliderPositions == 0..HoursInputMax

\* a range input without its max attribute
RangeSanitize_NoMax(raw) == IF raw < SliderMin THEN SliderMin ELSE raw

\* the range input's own value: a position below min reads min, one above max
\* reads max
RangeSanitize(raw) ==
    IF raw < SliderMin THEN SliderMin
    ELSE IF raw > SliderMax THEN SliderMax
    ELSE raw

RECURSIVE ValueString(_)
\* e.target.value: the decimal digits of the input's value, most significant first
ValueString(n) ==
    IF n < 10 THEN <<n>> ELSE Append(ValueString(n \div 10), n % 10)

RECURSIVE NumberOf(_)
\* Number(e.target.value) of a string of decimal digits
NumberOf(str) ==
    IF str = << >> THEN 0
    ELSE 10 * NumberOf(SubSeq(str, 1, Len(str) - 1)) + str[Len(str)]

\* the setHours call of the range input's onChange, then the render
SetHours(v) ==
    /\ hours' = v
    /\ view' = RenderView(hours', gpuType)
    /\ UNCHANGED <<gpuType, dashVars, landingVars>>

\* the range input is moved: onChange={(e) => setHours(Number(e.target.value))}
SliderChange(raw) ==
    /\ view # RenderError
    /\ slider' = raw
    /\ SetHours(NumberOf(ValueString(RangeSanitize(raw))))

\* an option list whose last value does not match its price table key
SelectOptions_Typo == {"T4", "A10G", "A100-80GB"}

\* the value attributes of the select's options
SelectOptions == {"T4", "A10G", "A100"}

\* onChange of the select: setGpuType(e.target.value), then the render
SetGpuType(g) ==
    /\ view # RenderError
    /\ gpuType' = g
    /\ view' = RenderView(hours, gpuType')
    /\ UNCHANGED <<hours, slider, dashVars, landingVars>>

----------------------------------------------------------------------------
(* Dashboard: the Current Spend card *)

RECURSIVE SpendOf_CostPerHour(_)
\* a reduce that adds up the hourly price in place of the accumulated cost
SpendOf_CostPerHour(list) ==
    IF list = << >> THEN 0
    ELSE SpendOf_CostPerHour(SubSeq(list, 1, Len(list) - 1))
         + list[Len(list)].cost_per_hour

RECURSIVE SpendOf(_)
\* list.reduce((acc, i) => acc + i.total_cost, 0), in cents
SpendOf(list) ==
    IF list = << >> THEN 0
    ELSE SpendOf(SubSeq(list, 1, Len(list) - 1)) + list[Len(list)].total_cost

\* (list.reduce(...) * 3).toFixed(0), in whole dollars
AwsComparisonOf(list) == ToFixed0(SpendOf(list) * 3, 100)

\* Current Spend: instances.reduce(...).toFixed(2), in cents
CurrentSpend == SpendOf(instances)

\* the figure of "vs $... on AWS", in whole dollars
AwsComparison == AwsComparisonOf(instances)

----------------------------------------------------------------------------
(* Specifications *)

InitDashboard ==
    /\ instances = SeedInstances
    /\ last = NoCall

Init == InitDashboard /\ InitLanding /\ InitCalc

Next == \E id \in Ids, action \in Actions : handleInstanceAction(id, action)

\* the dashboard from its seeded list
Spec == Init /\ [][Next]_vars

NextUI == \E n \in 1..Len(instances), b \in Actions : ClickButton(n, b)

\* the dashboard driven only through the buttons of its rows
SpecUI == Init /\ [][NextUI]_vars

NextLanding == Mount \/ StrictCleanup \/ StrictEffect \/ TickAny \/ Unmount

\* the landing page's counter and timer over the life of the component
SpecLanding == Init /\ [][NextLanding]_vars

\* the same with a timer that keeps firing while it is active
SpecLandingFair == SpecLanding /\ WF_vars(TickAny)

\* the slider positions tried while the timer runs: below, at and above the
\* ends of the range and the initial value
PageSliderPositions == {0, SliderMin, 100, SliderMax, HoursInputMax}

\* an input event of the calculator that the mounted landing page renders
PageCalcEvent ==
    /\ phase = "mounted"
    /\ \/ \E raw \in PageSliderPositions : SliderChange(raw)
       \/ \E g \in SelectOptions : SetGpuType(g)

NextPage == NextLanding \/ PageCalcEvent

\* the landing page with its calculator: timer ticks and input events interleaved
SpecPage == Init /\ [][NextPage]_vars

NextCalc ==
    \/ \E raw \in SliderPositions : SliderChange(raw)
    \/ \E g \in SelectOptions : SetGpuType(g)

\* the calculator driven by its two controls
SpecCalc == Init /\ [][NextCalc]_vars

\* the cost computation on any positive hours value
InitCost ==
    /\ InitDashboard
    /\ InitLanding
    /\ hours \in 1..HoursInputMax
    /\ gpuType \in GpuTypes
    /\ slider = hours
    /\ view = RenderView(hours, gpuType)

SpecCost == InitCost /\ [][NextCalc]_vars

\* a utilization other than 0 for a list that is an input of the handler
SomeUtilization == 50 * UtilScale

\* the lists of the Instance type the handler is tried on: any sublist of the
\* seed records, each with any status of the type and a zero or nonzero utilization
TypedInstances(present, st, ut) ==
    SelectSeq([n \in 1..Len(SeedInstances) |->
                  [SeedInstances[n] EXCEPT !.status = st[n],
                                           !.gpu_utilization = ut[n]]],
              LAMBDA i : i.id \in present)

InitHandler ==
    /\ \E present \in SUBSET {SeedInstances[n].id : n \in 1..Len(SeedInstances)},
          st \in [1..Len(SeedInstances) -> Status],
          ut \in [1..Len(SeedInstances) -> {0, SomeUtilization}] :
          instances = TypedInstances(present, st, ut)
    /\ last = NoCall
    /\ InitLanding
    /\ InitCalc

\* handleInstanceAction as a function of an arbitrary list of the Instance type
SpecHandler == InitHandler /\ [][Next]_vars

----------------------------------------------------------------------------
(* Claims about the dashboard *)

\* the positions of the instances with the id of the last call, before the call
Targets == {n \in 1..Len(last.prev) : last.prev[n].id = last.id}

\* C1: after handleInstanceAction(id, 'pause') the instance with that id is
\* still in the list, with status paused and gpu_utilization 0, whatever its
\* status was before (running, paused or stopped).
C1_PauseYieldsPausedZero ==
    last.action = "pause" =>
        /\ Len(instances) = Len(last.prev)
        /\ \A n \in Targets :
              /\ instances[n].id = last.id
              /\ instances[n].status = "paused"
              /\ instances[n].gpu_utilization = 0

\* a stopped instance with a nonzero utilization has just been paused
C1_Witness ==
    /\ last.action = "pause"
    /\ \E n \in Targets : /\ last.prev[n].status = "stopped"
                           /\ last.prev[n].gpu_utilization # 0
                           /\ instances[n].status = "paused"

\* C2: after handleInstanceAction(id, 'resume') the instance with that id has
\* status running and a gpu_utilization u with 0 <= u < 100, whatever its
\* status was before.
C2_ResumeYieldsRunningBounded ==
    last.action = "resume" =>
        /\ Len(instances) = Len(last.prev)
        /\ \A n \in Targets :
              /\ instances[n].id = last.id
              /\ instances[n].status = "running"
              /\ 0 <= instances[n].gpu_utilization
              /\ instances[n].gpu_utilization < 100 * UtilScale

\* a paused instance has just been resumed with the largest draw of the generator
C2_Witness ==
    /\ last.action = "resume"
    /\ \E n \in Targets : /\ last.prev[n].status = "paused"
                           /\ instances[n].status = "running"
                           /\ instances[n].gpu_utilization = 100 * (RandSteps - 1)

\* C3: handleInstanceAction(id, 'delete') removes exactly the instance with
\* that id: the new list is the old one without the positions that held the
\* id, every other record unchanged in all its fields and in the same order.
C3_DeleteRemovesExactlyThatId ==
    last.action = "delete" =>
        \E f \in [1..Len(instances) -> 1..Len(last.prev)] :
            /\ \A a, b \in 1..Len(instances) : a < b => f[a] < f[b]
            /\ \A m \in 1..Len(instances) : instances[m] = last.prev[f[m]]
            /\ {f[m] : m \in 1..Len(instances)} = (1..Len(last.prev)) \ Targets

\* the middle one of three instances has just been deleted
C3_Witness ==
    /\ last.action = "delete"
    /\ Len(last.prev) = 3
    /\ Targets = {2}
    /\ Len(instances) = 2

\* C7: in every state reachable from the seeded list each instance has one
\* status of {running, paused, stopped}, and a paused instance has
\* gpu_utilization 0.
C7_StatusAndPausedZero ==
    \A n \in 1..Len(instances) :
        /\ instances[n].status \in Status
        /\ instances[n].status = "paused" => instances[n].gpu_utilization = 0

\* an instance that the seed has running at 78 % is paused
C7_Witness ==
    /\ last.action = "pause"
    /\ \E n \in Targets : /\ last.prev[n].status = "running"
                           /\ last.prev[n].gpu_utilization > 0
                           /\ instances[n].status = "paused"

\* C8: in every state reachable from the seeded list no two instances of the
\* list have the same id.
C8_UniqueIds ==
    \A a, b \in 1..Len(instances) : a # b => instances[a].id # instances[b].id

\* two instances are left after a delete, one of them resumed since the seed
C8_Witness ==
    /\ Len(instances) = 2
    /\ \E n \in 1..Len(instances) :
          /\ instances[n].status = "running"
          /\ instances[n].gpu_utilization = 100 * (RandSteps - 1)

\* the ids of the instances of a list
IdsOf(list) == {list[n].id : n \in 1..Len(list)}

\* C11: a pause or resume changes only the status and gpu_utilization of the
\* instance with the given id; its other fields and every other instance are
\* unchanged, so in every reachable state total_cost and savings have their
\* seed values.
C11_PauseResumeFrame ==
    /\ last.action \in {"pause", "resume"} =>
          /\ Len(instances) = Len(last.prev)
          /\ \A n \in 1..Len(last.prev) :
                IF n \in Targets
                THEN [instances[n] EXCEPT
                         !.status = last.prev[n].status,
                         !.gpu_utilization = last.prev[n].gpu_utilization] = last.prev[n]
                ELSE instances[n] = last.prev[n]
    /\ \A n \in 1..Len(instances) :
          \E m \in 1..Len(SeedInstances) :
              /\ instances[n].id = SeedInstances[m].id
              /\ instances[n].total_cost = SeedInstances[m].total_cost
              /\ instances[n].savings = SeedInstances[m].savings

\* the seed's paused instance has just been resumed to a nonzero utilization
\* and still carries its seed total_cost
C11_Witness ==
    /\ last.action = "resume"
    /\ \E n \in Targets : /\ last.prev[n].status = "paused"
                           /\ instances[n].gpu_utilization > 0
                           /\ instances[n].total_cost = 4577
                           /\ instances[n].savings = 3204

\* C12: in every reachable state of the dashboard each instance's gpu_type is
\* one of T4, A10G, A100 and its cost_per_hour is the calculator's platform
\* price of that type (0.99, 1.99, 3.99).
C12_CostPerHourOfType ==
    \A n \in 1..Len(instances) :
        /\ instances[n].gpu_type \in {"T4", "A10G", "A100"}
        /\ instances[n].cost_per_hour = gpuPrices[instances[n].gpu_type].ours
        /\ instances[n].cost_per_hour =
              CASE instances[n].gpu_type = "T4" -> 99
                [] instances[n].gpu_type = "A10G" -> 199
                [] instances[n].gpu_type = "A100" -> 399

\* after a delete the A100 instance is left alone in the list at 3.99
C12_Witness ==
    /\ last.action = "delete"
    /\ Len(instances) = 1
    /\ instances[1].gpu_type = "A100"
    /\ instances[1].cost_per_hour = 399

\* C15: a call with an id that is not in the list leaves the list exactly
\* unchanged, whatever the action; every call ends in a list of instance
\* records of the seed's shape, never in an error state.
C15_UnknownIdIsNoOp ==
    /\ last.action \in Actions /\ last.id \notin IdsOf(last.prev) =>
          instances = last.prev
    /\ \A n \in 1..Len(instances) :
          /\ DOMAIN instances[n] = DOMAIN Seed1
          /\ instances[n].status \in Status

\* a delete of an id that an earlier delete removed, with two instances left
C15_Witness ==
    /\ last.action = "delete"
    /\ last.id = "gpu-1"
    /\ "gpu-1" \notin IdsOf(last.prev)
    /\ Len(last.prev) = 2
    /\ instances = last.prev

\* C16: deletion has no undo: no step adds an id to the list, so a deleted id
\* is in the list in no later state, and the number of instances never
\* increases.
C16_NoUndo ==
    [][/\ IdsOf(instances') \subseteq IdsOf(instances)
       /\ Len(instances') <= Len(instances)]_vars

\* a resume of a deleted id has just been tried and the id is still gone
C16_Witness ==
    /\ last.action = "resume"
    /\ last.id = "gpu-2"
    /\ "gpu-2" \notin IdsOf(last.prev)
    /\ "gpu-2" \notin IdsOf(instances)

\* C17: through the buttons, pause is offered exactly for a running instance,
\* resume exactly for one that is not running and delete for every instance;
\* so a pause acts on a running instance, a resume on one that is not running,
\* and an instance that stays in the list keeps its status or moves
\* running -> paused or paused -> running.
C17_UiTransitions ==
    /\ [](\A n \in 1..Len(instances) :
             /\ "delete" \in ButtonsOf(instances[n])
             /\ "pause" \in ButtonsOf(instances[n]) <=> instances[n].status = "running"
             /\ "resume" \in ButtonsOf(instances[n]) <=> instances[n].status # "running")
    /\ [](last.action \in Actions => Targets # {})
    /\ [](last.action = "pause" =>
             \A n \in Targets : last.prev[n].status = "running")
    /\ [](last.action = "resume" =>
             \A n \in Targets : last.prev[n].status # "running")
    /\ [][\A a \in 1..Len(instances), b \in 1..Len(instances') :
             instances[a].id = instances'[b].id =>
                 <<instances[a].status, instances'[b].status>> \in
                     {<<"running", "running">>, <<"paused", "paused">>,
                      <<"running", "paused">>, <<"paused", "running">>}]_vars

\* the instance the seed has running was paused and has now been deleted
C17_Witness ==
    /\ last.action = "delete"
    /\ last.id = "gpu-1"
    /\ \E n \in Targets : last.prev[n].status = "paused"
    /\ "gpu-1" \notin IdsOf(instances)

\* C20: from the seeded list no instance ever has the status stopped, so the
\* running count plus the paused count is the number shown as Active GPUs.
C20_NeverStopped ==
    /\ \A n \in 1..Len(instances) : instances[n].status # "stopped"
    /\ RunningCount + AutoPausedCount = ActiveGpus

\* two instances are left, both paused, one of them by a pause since the seed
C20_Witness ==
    /\ ActiveGpus = 2
    /\ AutoPausedCount = 2
    /\ RunningCount = 0
    /\ last.action = "pause"

\* the draws of Math.random()
Draws == 0..(RandSteps - 1)

\* C21: pause and delete are idempotent: in the state a pause or delete of an
\* id has produced, the same action on the same id gives the same list again.
\* Two actions on two different ids commute: following the call that has just
\* been made, with draw k, by any action on another id gives the list that
\* the two calls give in the other order from the list before, for the same
\* draws.
C21_IdempotentAndCommuting ==
    /\ last.action \in {"pause", "delete"} =>
          \A k \in Draws :
              ApplyInstanceAction(instances, last.id, last.action, k) = instances
    /\ last.action \in Actions =>
          \A id2 \in Ids \ {last.id} : \A a2 \in Actions : \A k, k2 \in Draws :
              instances = ApplyInstanceAction(last.prev, last.id, last.action, k) =>
                  ApplyInstanceAction(instances, id2, a2, k2)
                  = ApplyInstanceAction(
                        ApplyInstanceAction(last.prev, id2, a2, k2),
                        last.id, last.action, k)

\* the instance the seed has running was already paused and has been paused
\* again, next to another one that was resumed, with the same list as a result
C21_Witness ==
    /\ last.action = "pause"
    /\ last.id = "gpu-1"
    /\ \E n \in Targets : last.prev[n].status = "paused"
    /\ instances = last.prev
    /\ \E m \in 1..Len(instances) :
          /\ instances[m].id = "gpu-2"
          /\ instances[m].status = "running"

RECURSIVE TotalCostOver(_, _)
\* the sum of total_cost over the positions S of a list
TotalCostOver(list, S) ==
    IF S = {} THEN 0
    ELSE LET n == CHOOSE x \in S : TRUE
         IN list[n].total_cost + TotalCostOver(list, S \ {n})

\* Current Spend is the sum of total_cost over the list; a pause or resume
\* leaves Current Spend and the AWS figure unchanged; a delete lowers Current
\* Spend by the total_cost of the deleted instance; both are 0 for the empty list
SpendFollowsList ==
    /\ CurrentSpend = TotalCostOver(instances, 1..Len(instances))
    /\ last.action \in {"pause", "resume"} =>
          /\ CurrentSpend = SpendOf(last.prev)
          /\ AwsComparison = AwsComparisonOf(last.prev)
    /\ last.action = "delete" =>
          CurrentSpend = SpendOf(last.prev) - TotalCostOver(last.prev, Targets)
    /\ Len(instances) = 0 => CurrentSpend = 0 /\ AwsComparison = 0
    /\ instances = SeedInstances => CurrentSpend = 18929

\* C22 as stated: Current Spend follows the list as above and the AWS
\* comparison figure is 3 times the sum of total_cost.
C22_AwsFigureIsThreeTimesSpend ==
    /\ SpendFollowsList
    /\ AwsComparison * 100 = 3 * CurrentSpend

\* C22 as amended: Current Spend follows the list as above and the AWS
\* comparison figure is 3 times the sum of total_cost rounded to the nearest
\* whole dollar (568 for the seed's 189.29).
C22_AwsFigureIsRoundedThreeTimesSpend ==
    /\ SpendFollowsList
    /\ 2 * (AwsComparison * 100 - 3 * CurrentSpend) <= 100
    /\ 2 * (3 * CurrentSpend - AwsComparison * 100) < 100
    /\ instances = SeedInstances => AwsComparison = 568

\* the first of three instances has been deleted: 61.61 is left, against 185
C22_Witness ==
    /\ last.action = "delete"
    /\ last.id = "gpu-1"
    /\ Len(last.prev) = 3
    /\ CurrentSpend = 6161
    /\ AwsComparison = 185

----------------------------------------------------------------------------
(* Claims about the cost calculator *)

\* C4: for every gpu type of the price table and every hours value > 0 the
\* platform cost is strictly less than the provider cost, so the savings is
\* strictly positive.
C4_PlatformCheaper ==
    hours > 0 => /\ view.ourCost < view.awsCost
                 /\ view.savings > 0

\* the smallest hours value with the type whose price gap is smallest
C4_Witness ==
    /\ hours = 1
    /\ gpuType = "T4"
    /\ view.ourCost = 99
    /\ view.awsCost = 306

\* C5: for every gpu type and every hours value in [10, 730] the provider cost
\* is hours times the reference price, the platform cost hours times the
\* platform price, the savings their difference and savings_percent the
\* integer nearest to savings / provider_cost * 100 (a tie going up); for
\* hours = 100 and A10G these are 512.00, 199.00, 313.00 and 61.
C5_CostFormulas ==
    hours \in 10..730 =>
        /\ view.awsCost = hours * gpuPrices[gpuType].aws
        /\ view.ourCost = hours * gpuPrices[gpuType].ours
        /\ view.savings = view.awsCost - view.ourCost
        /\ 2 * (view.savingsPercent * view.awsCost - 100 * view.savings) <= view.awsCost
        /\ 2 * (100 * view.savings - view.savingsPercent * view.awsCost) < view.awsCost
        /\ (hours = 100 /\ gpuType = "A10G") =>
               view = [awsCost |-> 51200, ourCost |-> 19900,
                       savings |-> 31300, savingsPercent |-> 61]

\* the example of the claim has been rendered
C5_Witness ==
    /\ hours = 100
    /\ gpuType = "A10G"
    /\ view.awsCost = 51200
    /\ view.savingsPercent = 61

\* C6: for a fixed gpu type savings_percent is the same for every hours value
\* of the slider: a step that keeps the gpu type keeps the percentage.
C6_PercentIndependentOfHours ==
    [][gpuType' = gpuType => view'.savingsPercent = view.savingsPercent]_vars

\* the slider has been moved to its maximum and the T4 percentage is the one
\* every other hours value gives
C6_Witness ==
    /\ hours = SliderMax
    /\ gpuType = "T4"
    /\ view.savingsPercent = 68

\* C13: after any sequence of slider change events the hours state is within
\* [10, 730]: a position outside the range is clamped by the input and the
\* value outside the range is never stored.
C13_HoursWithinRange ==
    /\ hours \in 10..730
    /\ slider < 10 => hours = 10
    /\ slider > 730 => hours = 730
    /\ slider \in 10..730 => hours = slider

\* the slider has been pushed past its maximum and hours is the maximum
C13_Witness ==
    /\ slider > SliderMax
    /\ hours = SliderMax
    /\ view.awsCost = SliderMax * gpuPrices[gpuType].aws

\* C14: after any sequence of gpu type selection events gpuType is a key of
\* the price table, so the lookup is defined and the render never ends in an
\* error.
C14_GpuTypeIsKey ==
    /\ gpuType \in {"T4", "A10G", "A100"}
    /\ gpuType \in DOMAIN gpuPrices
    /\ view # RenderError

\* the last option has been selected at the slider's minimum and priced
C14_Witness ==
    /\ gpuType = "A100"
    /\ hours = SliderMin
    /\ view = Render(SliderMin, "A100")
    /\ view.awsCost = 12240

----------------------------------------------------------------------------
(* Claims about the landing page *)

\* C9: the counter starts at 0; a tick adds exactly 1 while it is below 70 and
\* leaves it at 70 otherwise; it is always an integer in 0..70 and never
\* decreases.
C9_CounterSteps ==
    /\ savings = 0
    /\ [](savings \in 0..70)
    /\ [][lastEvent' = "tick" =>
              savings' = IF savings < 70 THEN savings + 1 ELSE 70]_vars
    /\ [][savings' >= savings]_vars

\* a tick has brought the counter to its cap
C9_Witness ==
    /\ lastEvent = "tick"
    /\ savings = 70
    /\ phase = "mounted"

\* C10: if the page stays mounted, with a timer that keeps firing, the counter
\* eventually is 70 and stays 70 forever.
C10_EventuallyStays70 ==
    (<>[](phase = "mounted")) => <>[](savings = 70)

\* the page is mounted, after strict mode's second run of the effect, with the
\* counter at 70
C10_Witness ==
    /\ phase = "mounted"
    /\ interval = 2
    /\ timers = {2}
    /\ savings = 70

\* C18: at most one interval is active at any time: exactly the effect's own
\* one while the page is mounted, also after strict mode's unmount and
\* remount, and none before the mount, between strict mode's cleanup and
\* second effect, and after the unmount, when no step changes the counter.
C18_OneTimer ==
    /\ [](Cardinality(timers) <= 1)
    /\ [](phase \in {"mounted", "strictMounted"} =>
             /\ interval > 0
             /\ timers = {interval})
    /\ [](phase \in {"new", "strictUnmounted", "gone"} => timers = {})
    /\ [][phase = "gone" => savings' = savings]_vars

\* the page was mounted twice by strict mode, ticked and has been unmounted
C18_Witness ==
    /\ phase = "gone"
    /\ lastEvent = "unmount"
    /\ interval = 2
    /\ timers = {}
    /\ savings > 0

\* C19: a tick leaves hours and gpuType unchanged, a change of hours or
\* gpuType leaves the counter unchanged, and after n ticks the counter is
\* min(n, 70) whatever calculator events came in between.
C19_TicksAndInputsIndependent ==
    /\ [][(ticks' # ticks \/ savings' # savings) =>
              UNCHANGED <<hours, gpuType, slider, view>>]_vars
    /\ [][(hours' # hours \/ gpuType' # gpuType \/ slider' # slider) =>
              UNCHANGED <<savings, ticks>>]_vars
    /\ [](ticks < MaxTicks => savings = IF ticks < 70 THEN ticks ELSE 70)

\* 72 ticks have run and the calculator was moved to the slider's maximum and
\* to another gpu type on the way
C19_Witness ==
    /\ ticks = 72
    /\ savings = 70
    /\ hours = SliderMax
    /\ gpuType = "T4"
    /\ slider > SliderMax

====
